---- MODULE Spec2Model ----
(***************************************************************************)
(* Model of game_of_life/__main__.py: the Game class (constructor, update, *)
(* run) and the command-line entry point that parses the rule string.      *)
(*                                                                         *)
(* A Game object is the record `self` of its assigned attributes (the      *)
(* empty function before any attribute is assigned).  numpy arrays are     *)
(* objects on `heap`, addressed by reference, so that the aliasing of      *)
(* `previous_universe = self.universe` against `self.universe.copy()` is   *)
(* part of the model.  The matplotlib objects (fig, ax, img, text) and the *)
(* perf_counter_ns bookkeeping of lines 47-65 and 98-111 do not feed back  *)
(* into generation, N, the rules or the universe and are left out.         *)
(***************************************************************************)
EXTENDS Integers, Sequences, FiniteSets, TLC

VARIABLES
    pc,        \* "new" (nothing run yet), "ready" (a Game exists, between
               \* calls), "updating" (inside update), "raised" (uncaught
               \* exception: the process is over)
    err,       \* name of the exception raised, "" if none
    args,      \* the arguments of the run: constructor arguments or argv
    self,      \* attributes of the Game object assigned so far
    heap,      \* reference -> ndarray, the live arrays
    frame,     \* locals of the running update call, << >> outside update
    pre,       \* history: value of self.universe when update was last entered
    initial,   \* history: value of self.universe when __init__ returned
    calls      \* history: number of update calls that returned

vars == <<pc, err, args, self, heap, frame, pre, initial, calls>>

(***************************************************************************)
(* Bounds of the model.                                                    *)
(***************************************************************************)
MaxSize == 12        \* sizes tried are -1 .. MaxSize
MaxSparseSize == 4   \* sizes whose drawn lattices have up to MaxAlive alive cells
MaxSweepSize == 2    \* sizes tried with every rule list and every rule string
MaxShape == 5        \* explicit initial_universe arrays are k x k, k <= MaxShape
MaxAlive == 2        \* alive cells of a sparse initial lattice
MaxRuleLen == 1      \* entries of the rule lists tried exhaustively
MaxGen == 3          \* update is not called once generation = MaxGen
MaxStrLen == 3       \* length of the generated rule strings
MaxStepSize == 4     \* sizes tried when update is followed cell by cell
MaxStepAlive == 1    \* alive cells of the lattices drawn for those runs

MaxCount == 8      \* a cell has eight neighbours: counts are 0..8

NoValue == << >>
Some(x) == <<x>>

(***************************************************************************)
(* numpy arrays: [dtype, shape, data], square with side `shape`; data is   *)
(* the row-major buffer, so the element <<row, col>> is data[row*shape+col]*)
(***************************************************************************)
Cells(M) == (0 .. M - 1) \X (0 .. M - 1)

Offset(M, c) == c[1] * M + c[2]

\* a[c] for an index tuple c inside the shape
At(a, c) == a.data[Offset(a.shape, c)]

BoolArray(M, alive) ==
    [dtype |-> "bool", shape |-> M,
     data |-> [x \in 0 .. M * M - 1 |-> <<x \div M, x % M>> \in alive]]

IntArray(M, alive) ==
    [dtype |-> "int", shape |-> M,
     data |-> [x \in 0 .. M * M - 1 |->
                 IF <<x \div M, x % M>> \in alive THEN 1 ELSE 0]]

\* ndarray.astype(bool): a new array, nonzero -> True
AsTypeBool(a) ==
    [dtype |-> "bool", shape |-> a.shape,
     data |-> [x \in DOMAIN a.data |->
                 IF a.dtype = "bool" THEN a.data[x] ELSE a.data[x] # 0]]

\* a[nb] with a non-negative index tuple: IndexError outside the shape
InBounds(a, nb) == nb[1] < a.shape /\ nb[2] < a.shape

AliveSet(a) == {c \in Cells(a.shape) : At(a, c)}

\* `x in rule` on a Python list
InList(x, rule) == \E k \in 1 .. Len(rule) : rule[k] = x

(***************************************************************************)
(* Game.__init__, lines 31-46.                                             *)
(***************************************************************************)
\* numpy: log2(size) % 1 == 0.  log2 of 0 is -inf and of a negative number
\* nan; both give nan % 1 = nan, which is != 0.
RECURSIVE Log2IsWhole(_)
Log2IsWholeEven(size) == size = 1 \/ (size > 1 /\ size % 2 = 0)
Log2IsWhole(size) ==
    IF size <= 0 THEN FALSE
    ELSE IF size = 1 THEN TRUE
    ELSE size % 2 = 0 /\ Log2IsWhole(size \div 2)

DefaultBirthRule == <<3>>
DefaultSurviveRule == <<2, 3>>

BirthRuleOrDefault(birth_rule) ==
    IF birth_rule = NoValue THEN DefaultBirthRule ELSE birth_rule[1]

SurviveRuleOrDefault(survive_rule) ==
    IF survive_rule = NoValue THEN DefaultSurviveRule ELSE survive_rule[1]

FirstGeneration == 1

\* lines 40-46: the attributes, with the universe stored at reference 1
NewSelf(size, birth_rule, survive_rule, visualize) ==
    [generation |-> FirstGeneration,
     N |-> size,
     visualize |-> visualize,
     birth_rule |-> BirthRuleOrDefault(birth_rule),
     survive_rule |-> SurviveRuleOrDefault(survive_rule),
     universe |-> 1]

\* The body of __init__.  Line 38 runs only when initial_universe is None,
\* and then draws one of the lattices `drawable`.
GameInit(size, initial_universe, birth_rule, survive_rule, visualize, drawable) ==
    IF ~Log2IsWhole(size)
    THEN /\ pc' = "raised"
         /\ err' = "ValueError"
         /\ UNCHANGED <<self, heap, initial>>
    ELSE \E given \in IF initial_universe = NoValue
                      THEN {BoolArray(size, alive) : alive \in drawable}
                      ELSE {initial_universe[1]} :
            LET stored == AsTypeBool(given)
            IN /\ pc' = "ready"
               /\ err' = ""
               /\ self' = NewSelf(size, birth_rule, survive_rule, visualize)
               /\ heap' = (1 :> stored)
               /\ initial' = stored

(***************************************************************************)
(* Game.update, lines 71-114.                                              *)
(***************************************************************************)
PureNorthTypo(j, N) == (j - 1) % N
PureNorth(j, N) == (j + 1) % N
PureSouth(j, N) == (j - 1) % N
PureEast(i, N) == (i + 1) % N
PureWestTypo(i, N) == (i + 1) % N
PureWest(i, N) == (i - 1) % N

\* lines 81-90, in the order of the list
Neighbors(j, i, N) ==
    << <<PureNorth(j, N), i>>,                 \* N
       <<PureSouth(j, N), i>>,                 \* S
       <<j, PureEast(i, N)>>,                  \* E
       <<j, PureWest(i, N)>>,                  \* W
       <<PureNorth(j, N), PureWest(i, N)>>,    \* NW
       <<PureNorth(j, N), PureEast(i, N)>>,    \* NE
       <<PureSouth(j, N), PureWest(i, N)>>,    \* SW
       <<PureSouth(j, N), PureEast(i, N)>> >>  \* SE

\* lines 91-92: len([s for s in state if s])
AliveCount(previous, neighbors) ==
    Cardinality({k \in 1 .. Len(neighbors) : At(previous, neighbors[k])})

\* lines 94-96
NextStateSwapped(current_cell, alive_count, birth_rule, survive_rule) ==
    \/ current_cell /\ InList(alive_count, birth_rule)
    \/ ~current_cell /\ InList(alive_count, survive_rule)
NextState(current_cell, alive_count, birth_rule, survive_rule) ==
    \/ current_cell /\ InList(alive_count, survive_rule)
    \/ ~current_cell /\ InList(alive_count, birth_rule)

\* smallest reference with no live array
Alloc(h) == CHOOSE r \in 1 .. 2 : r \notin DOMAIN h

\* line 74: the reference `universe` is bound to
CopyTargetAlias(s, h) == s.universe
CopyTarget(s, h) == Alloc(h)

\* lines 72-74 and the start of the loops
EnterFrame(s, h) ==
    [N |-> s.N,
     previous_universe |-> s.universe,
     universe |-> CopyTarget(s, h),
     j |-> 0,
     i |-> 0]

\* line 74: the heap once the copy exists
EnterHeap(s, h) ==
    LET universe == CopyTarget(s, h)
    IN (universe :> h[s.universe]) @@ h

\* range(N) of both loops: the cell after (j, i), row j = N when done
Advance(f) ==
    IF f.i + 1 < f.N
    THEN [f EXCEPT !.i = f.i + 1]
    ELSE [f EXCEPT !.j = f.j + 1, !.i = 0]

LoopDone(f) == f.j >= f.N

\* lines 91 and 93 raise IndexError when a read is outside the array
CellRaises(f, h) ==
    LET previous == h[f.previous_universe]
        neighbors == Neighbors(f.j, f.i, f.N)
    IN \/ \E k \in 1 .. Len(neighbors) : ~InBounds(previous, neighbors[k])
       \/ ~InBounds(previous, <<f.j, f.i>>)

\* lines 76-96 for the cell (f.j, f.i): the heap after the write
CellWrite(f, h, s) ==
    LET previous == h[f.previous_universe]
        neighbors == Neighbors(f.j, f.i, f.N)
        alive_count == AliveCount(previous, neighbors)
        current_cell == At(previous, <<f.j, f.i>>)
    IN [h EXCEPT ![f.universe].data[Offset(h[f.universe].shape, <<f.j, f.i>>)] =
          NextState(current_cell, alive_count, s.birth_rule, s.survive_rule)]

\* line 112
NextGenerationIfVisualize(s) ==
    IF s.visualize THEN s.generation + 1 ELSE s.generation
NextGeneration(s) == s.generation + 1

\* lines 97 and 112
ReturnSelf(f, s) ==
    [s EXCEPT !.universe = f.universe, !.generation = NextGeneration(s)]

\* after the return only self.universe is referenced
ReturnHeap(f, h) == (f.universe :> h[f.universe])

\* the loops run to the end, or to the first read that raises
RECURSIVE RunLoop(_, _, _)
RunLoop(f, h, s) ==
    IF LoopDone(f) THEN [raised |-> FALSE, frame |-> f, heap |-> h]
    ELSE IF CellRaises(f, h) THEN [raised |-> TRUE, frame |-> f, heap |-> h]
    ELSE RunLoop(Advance(f), CellWrite(f, h, s), s)

\* One whole call of update(_), as FuncAnimation (line 118) or the loop of
\* run (line 123) makes it.
Update ==
    /\ pc = "ready"
    /\ self.generation < MaxGen
    /\ \E out \in {RunLoop(EnterFrame(self, heap), EnterHeap(self, heap), self)} :
          IF out.raised
          THEN /\ pc' = "raised"
               /\ err' = "IndexError"
               /\ UNCHANGED <<self, heap, calls>>
          ELSE /\ pc' = "ready"
               /\ self' = ReturnSelf(out.frame, self)
               /\ heap' = ReturnHeap(out.frame, out.heap)
               /\ calls' = calls + 1
               /\ UNCHANGED err
    /\ pre' = heap[self.universe]
    /\ UNCHANGED <<args, frame, initial>>

\* The same call, one step at a time.
UpdateEnter ==
    /\ pc = "ready"
    /\ self.generation < MaxGen
    /\ pc' = "updating"
    /\ frame' = EnterFrame(self, heap)
    /\ heap' = EnterHeap(self, heap)
    /\ pre' = heap[self.universe]
    /\ UNCHANGED <<err, args, self, initial, calls>>

UpdateCell ==
    /\ pc = "updating"
    /\ ~LoopDone(frame)
    /\ IF CellRaises(frame, heap)
       THEN /\ pc' = "raised"
            /\ err' = "IndexError"
            /\ frame' = NoValue
            /\ heap' = (self.universe :> heap[self.universe])
       ELSE /\ frame' = Advance(frame)
            /\ heap' = CellWrite(frame, heap, self)
            /\ UNCHANGED <<pc, err>>
    /\ UNCHANGED <<args, self, pre, initial, calls>>

UpdateReturn ==
    /\ pc = "updating"
    /\ LoopDone(frame)
    /\ pc' = "ready"
    /\ self' = ReturnSelf(frame, self)
    /\ heap' = ReturnHeap(frame, heap)
    /\ frame' = NoValue
    /\ calls' = calls + 1
    /\ UNCHANGED <<err, args, pre, initial>>


(***************************************************************************)
(* The entry point, lines 130-155.                                         *)
(***************************************************************************)
\* A str is the sequence of its characters.
DigitChars == <<"0", "1", "2", "3", "4", "5", "6", "7", "8", "9">>

IsDigitChar(c) == \E k \in 1 .. Len(DigitChars) : DigitChars[k] = c

\* int(b) for a one-character string: ValueError unless b is a digit
IntOfChar(c) == (CHOOSE k \in 1 .. Len(DigitChars) : DigitChars[k] = c) - 1

\* str.split(sep): the pieces between the separators, one more than there
\* are separators
RECURSIVE SplitFrom(_, _, _, _)
SplitFrom(s, sep, k, piece) ==
    IF k > Len(s) THEN <<piece>>
    ELSE IF s[k] = sep THEN <<piece>> \o SplitFrom(s, sep, k + 1, <<>>)
    ELSE SplitFrom(s, sep, k + 1, Append(piece, s[k]))

Split(s, sep) == SplitFrom(s, sep, 1, <<>>)

\* str.strip(ch): drops every leading and every trailing ch
RECURSIVE LStrip(_, _)
LStrip(s, ch) ==
    IF s # <<>> /\ Head(s) = ch THEN LStrip(Tail(s), ch) ELSE s

RECURSIVE RStrip(_, _)
RStrip(s, ch) ==
    IF s # <<>> /\ s[Len(s)] = ch
    THEN RStrip(SubSeq(s, 1, Len(s) - 1), ch)
    ELSE s

Strip(s, ch) == RStrip(LStrip(s, ch), ch)

\* lines 146-147: [int(b) for b in string]
IntList(s) == [k \in 1 .. Len(s) |-> IntOfChar(s[k])]

AllDigitChars(s) == \A k \in 1 .. Len(s) : IsDigitChar(s[k])

\* lines 143-147: ok is FALSE when the unpacking of line 143 or an int() of
\* lines 146-147 raises ValueError
ParseRulestring(rulestring) ==
    LET parts == Split(rulestring, "/")
    IN IF Len(parts) # 2
       THEN [ok |-> FALSE, birth_rule |-> <<>>, survive_rule |-> <<>>]
       ELSE LET birth_string == Strip(parts[1], "B")
                survive_string == Strip(parts[2], "S")
            IN IF AllDigitChars(birth_string) /\ AllDigitChars(survive_string)
               THEN [ok |-> TRUE,
                     birth_rule |-> IntList(birth_string),
                     survive_rule |-> IntList(survive_string)]
               ELSE [ok |-> FALSE, birth_rule |-> <<>>, survive_rule |-> <<>>]

(***************************************************************************)
(* The inputs tried.                                                       *)
(***************************************************************************)
Sizes == -1 .. MaxSize

RECURSIVE SparseSets(_, _)
SparseSets(M, k) ==
    IF k = 0 THEN {{}}
    ELSE LET smaller == SparseSets(M, k - 1)
         IN smaller \cup {a \cup {c} : a \in smaller, c \in Cells(M)}

BlockAt(r, c, M) ==
    {<<r, c>>, <<r, (c + 1) % M>>, <<(r + 1) % M, c>>, <<(r + 1) % M, (c + 1) % M>>}

Blocks(M) == IF M < 2 THEN {} ELSE {BlockAt(c[1], c[2], M) : c \in Cells(M)}

\* lattices line 38 may draw: every lattice has positive probability for a
\* threshold inside (0, 1); the sparse ones and the 2x2 blocks are tried
\* (above MaxSparseSize the dead lattice and the blocks)
Drawn(size) ==
    IF size < 1 THEN {{}}
    ELSE SparseSets(size, IF size <= MaxSparseSize THEN MaxAlive ELSE 0)
            \cup Blocks(size)

RECURSIVE SortedList(_)
SortedList(S) ==
    IF S = {} THEN <<>>
    ELSE LET m == CHOOSE x \in S : \A y \in S : x <= y
         IN <<m>> \o SortedList(S \ {m})

RuleLists ==
    {SortedList(S) : S \in {T \in SUBSET (0 .. MaxCount) : Cardinality(T) <= MaxRuleLen}}

NamedRules ==
    { <<NoValue, NoValue>>,                                        \* B3/S23
      <<Some(<<3, 6>>), Some(<<2, 3>>)>>,                          \* B36/S23
      <<Some(<<2>>), Some(<<>>)>>,                                 \* B2/S
      <<Some(<<1, 3, 5, 7>>), Some(<<1, 3, 5, 7>>)>>,              \* B1357/S1357
      <<Some(<<3>>), Some(<<0, 1, 2, 3, 4, 5, 6, 7, 8>>)>>,        \* B3/S012345678
      <<Some(<<0>>), Some(<<>>)>> }                                \* B0/S

CtorArgs(size, initial_universe, rules, visualize) ==
    [entry |-> "Game", size |-> size, rulestring |-> <<>>,
     initial_universe |-> initial_universe,
     birth_rule |-> rules[1], survive_rule |-> rules[2],
     visualize |-> visualize]

SweepSizes == {n \in Sizes : n <= MaxSweepSize}

StepSizes == {n \in Sizes : n <= MaxStepSize}

StepDrawn(size) ==
    IF size < 1 THEN {{}} ELSE SparseSets(size, MaxStepAlive) \cup Blocks(size)

\* explicit k x k lattices: dead, one alive cell, or a 2x2 block
ExplicitLattices(k) == {IntArray(k, a) : a \in SparseSets(k, 1) \cup Blocks(k)}

Alphabet == {"B", "S", "/", "3", "9"}

RECURSIVE StringsUpTo(_)
StringsUpTo(n) ==
    IF n = 0 THEN {<<>>}
    ELSE LET shorter == StringsUpTo(n - 1)
         IN shorter \cup {Append(s, c) : s \in shorter, c \in Alphabet}

NamedRulestrings ==
    { <<"B", "3", "/", "S", "2", "3">>,
      <<"B", "3", "6", "/", "S", "2", "3">>,
      <<"B", "3", "S", "2", "3">>,
      <<"3", "/", "2", "3">>,
      <<"B", "9", "/", "S", "2", "3">>,
      <<"S", "2", "3", "/", "B", "3">>,
      <<"B", "3", "/", "S", "2", "3", "/">> }

Rulestrings == StringsUpTo(MaxStrLen) \cup NamedRulestrings

MainArgs(size, rulestring) ==
    [entry |-> "main", size |-> size, rulestring |-> rulestring,
     initial_universe |-> NoValue,
     birth_rule |-> NoValue, survive_rule |-> NoValue,
     visualize |-> TRUE]

(***************************************************************************)
(* The two ways a run starts.                                              *)
(***************************************************************************)
\* Game(...) called by a program with the arguments a
Construct(a, drawable) ==
    /\ pc = "new"
    /\ args' = a
    /\ GameInit(a.size, a.initial_universe, a.birth_rule, a.survive_rule,
                a.visualize, drawable)
    /\ UNCHANGED <<frame, pre, calls>>

\* python -m game_of_life -s size -r rulestring: lines 140-155
Main(size, rulestring) ==
    /\ pc = "new"
    /\ args' = MainArgs(size, rulestring)
    /\ LET rule == ParseRulestring(rulestring)
       IN IF ~Log2IsWhole(size) \/ ~rule.ok
          THEN /\ pc' = "raised"
               /\ err' = "ValueError"
               /\ UNCHANGED <<self, heap, initial>>
          ELSE GameInit(size, NoValue, Some(rule.birth_rule),
                        Some(rule.survive_rule), TRUE, Drawn(size))
    /\ UNCHANGED <<frame, pre, calls>>

NoArray == BoolArray(0, {})

Init ==
    /\ pc = "new"
    /\ err = ""
    /\ args = NoValue
    /\ self = NoValue
    /\ heap = << >>
    /\ frame = NoValue
    /\ pre = NoArray
    /\ initial = NoArray
    /\ calls = 0

\* Game(size, birth_rule=b, survive_rule=s, visualize=False), every short rule
ConstructRuleSweep ==
    /\ pc = "new"
    /\ \E size \in SweepSizes, b \in RuleLists, s \in RuleLists :
        Construct(CtorArgs(size, NoValue, <<Some(b), Some(s)>>, FALSE), Drawn(size))

\* Game(size, ..., visualize=v) with a named rule, every size
ConstructNamedRule(sizes, drawable) ==
    /\ pc = "new"
    /\ \E size \in sizes, r \in NamedRules, v \in BOOLEAN :
        Construct(CtorArgs(size, NoValue, r, v), drawable[size])

\* Game(size, initial_universe=lattice, visualize=v)
ConstructExplicit(sizes) ==
    /\ pc = "new"
    /\ \E size \in sizes, k \in 1 .. MaxShape, v \in BOOLEAN :
        \E lattice \in ExplicitLattices(k) :
            Construct(CtorArgs(size, Some(lattice), <<NoValue, NoValue>>, v), {})

MainRun ==
    /\ pc = "new"
    /\ \E size \in SweepSizes, rulestring \in Rulestrings : Main(size, rulestring)

Next ==
    \/ ConstructRuleSweep
    \/ ConstructNamedRule(Sizes, [n \in Sizes |-> Drawn(n)])
    \/ ConstructExplicit(Sizes)
    \/ MainRun
    \/ Update

Spec == Init /\ [][Next]_vars

\* The same program with update followed cell by cell.
NextSteps ==
    \/ ConstructNamedRule(StepSizes, [n \in StepSizes |-> StepDrawn(n)])
    \/ ConstructExplicit(StepSizes)
    \/ UpdateEnter
    \/ UpdateCell
    \/ UpdateReturn

SpecSteps == Init /\ [][NextSteps]_vars

(***************************************************************************)
(* Properties.  The definitions they use are stated on their own, not      *)
(* through the operators of update above.                                  *)
(***************************************************************************)
\* the lattice self.universe refers to
Universe == heap[self.universe]

RuleSet(rule) == {rule[k] : k \in 1 .. Len(rule)}

Offsets == {d \in (-1 .. 1) \X (-1 .. 1) : d # <<0, 0>>}

Shifted(row, col, d, N) == <<(row + d[1]) % N, (col + d[2]) % N>>

\* alive cells of `old` at the eight coordinates around (row, col)
CountAround(old, row, col, N) ==
    Cardinality({d \in Offsets : At(old, Shifted(row, col, d, N))})

RuleValue(old, row, col, N, birth, survive) ==
    \/ At(old, <<row, col>>) /\ CountAround(old, row, col, N) \in survive
    \/ ~At(old, <<row, col>>) /\ CountAround(old, row, col, N) \in birth

\* the lattice one step after `old`, cell by cell and in no order; cells
\* outside [0, N) x [0, N) are kept
StepOf(old, N, birth, survive) ==
    [old EXCEPT !.data =
        [x \in DOMAIN old.data |->
            LET row == x \div old.shape
                col == x % old.shape
            IN IF row < N /\ col < N
               THEN RuleValue(old, row, col, N, birth, survive)
               ELSE old.data[x]]]

AllDead(a) == \A x \in DOMAIN a.data : ~a.data[x]

RECURSIVE TwoToThe(_)
TwoToThe(k) == IF k = 0 THEN 1 ELSE 2 * TwoToThe(k - 1)

IsPositivePowerOfTwo(n) == n > 0 /\ \E k \in 0 .. n : k < 30 /\ TwoToThe(k) = n

\* C1: when update returns, every cell (row, col) of [0, N) x [0, N) holds
\* (old and n in survive_rule) or (not old and n in birth_rule), n being
\* the number of alive cells of the lattice before the call at the eight
\* coordinates ((row + dr) mod N, (col + dc) mod N).
C1_UpdateAppliesRule ==
    pc = "ready" /\ calls > 0 =>
        /\ Universe.shape = pre.shape
        /\ \A c \in Cells(self.N) :
              At(Universe, c) =
                  RuleValue(pre, c[1], c[2], self.N,
                            RuleSet(self.birth_rule), RuleSet(self.survive_rule))

C1_Witness ==
    /\ pc = "ready" /\ calls > 0
    /\ self.N = 4 /\ pre.shape = 4
    /\ Universe # pre
    /\ \E c \in Cells(4) : At(Universe, c) /\ ~At(pre, c)
    /\ \E c \in Cells(4) : ~At(Universe, c) /\ At(pre, c)

\* C2: generation is 1 after construction and 1 + k after k completed calls
\* of update, with and without visualize.
C2_GenerationCounts ==
    DOMAIN self # {} => self.generation = 1 + calls

C2_Witness ==
    pc = "ready" /\ calls = 2 /\ self.generation = 3 /\ ~self.visualize

\* C3: under birth {3}, survive {2, 3}, an N x N lattice, N >= 4, whose only
\* alive cells are a 2x2 block (wrapped or not) equals the initial lattice
\* after every number of update calls.
IsBlock(a) ==
    LET alive == AliveSet(a)
    IN \E c \in alive : alive = BlockAt(c[1], c[2], a.shape)

C3_BlockIsStill ==
    /\ pc = "ready"
    /\ self.N >= 4 /\ initial.shape = self.N
    /\ RuleSet(self.birth_rule) = {3} /\ RuleSet(self.survive_rule) = {2, 3}
    /\ IsBlock(initial)
    => Universe = initial

C3_Witness ==
    /\ pc = "ready" /\ calls >= 2
    /\ self.N = 8 /\ initial.shape = 8
    /\ RuleSet(self.birth_rule) = {3} /\ RuleSet(self.survive_rule) = {2, 3}
    /\ AliveSet(initial) = BlockAt(7, 7, 8)
    /\ Universe = initial

\* C4: when 0 is not in birth_rule, update leaves an all-dead lattice
\* all-dead.
C4_AllDeadStaysDead ==
    /\ pc = "ready" /\ calls > 0
    /\ AllDead(pre)
    /\ 0 \notin RuleSet(self.birth_rule)
    => AllDead(Universe)

C4_Witness ==
    /\ pc = "ready" /\ calls >= 2
    /\ AllDead(initial) /\ AllDead(pre) /\ AllDead(Universe)
    /\ 0 \notin RuleSet(self.birth_rule)
    /\ 0 \in RuleSet(self.survive_rule)

\* the eight coordinates update reads around (j, i), as a set
NeighbourSet(j, i, N) == {Neighbors(j, i, N)[k] : k \in 1 .. 8}

EightDistinctOthers(N) ==
    \A c \in Cells(N) :
        /\ Cardinality(NeighbourSet(c[1], c[2], N)) = 8
        /\ c \notin NeighbourSet(c[1], c[2], N)

CountsDistinctCells(a, N) ==
    \A c \in Cells(N) :
        AliveCount(a, Neighbors(c[1], c[2], N)) =
            Cardinality({nb \in NeighbourSet(c[1], c[2], N) : At(a, nb)})

CornerOfFour ==
    NeighbourSet(0, 0, 4) =
        {<<3, 3>>, <<3, 0>>, <<3, 1>>, <<0, 3>>, <<1, 3>>, <<0, 1>>, <<1, 0>>, <<1, 1>>}

\* C5 as stated: for every accepted N, 1 and 2 included, the eight
\* coordinates are pairwise distinct and none is the cell itself.
C5_AsStated ==
    pc = "ready" /\ calls > 0 =>
        /\ EightDistinctOthers(self.N)
        /\ CountsDistinctCells(Universe, self.N)
        /\ CornerOfFour

\* C5 amended: for every accepted N >= 4 the eight coordinates update reads
\* are pairwise distinct and none is the cell itself, so alive_count is the
\* number of distinct alive neighbouring cells; for N = 4 and cell (0, 0)
\* they are (3,3), (3,0), (3,1), (0,3), (1,3), (0,1), (1,0), (1,1).
C5_DistinctFromFour ==
    pc = "ready" /\ calls > 0 /\ self.N >= 4 =>
        /\ EightDistinctOthers(self.N)
        /\ CountsDistinctCells(Universe, self.N)
        /\ CornerOfFour

C5_Witness ==
    /\ pc = "ready" /\ calls > 0 /\ self.N = 4
    /\ \E c \in Cells(4) : AliveCount(pre, Neighbors(c[1], c[2], 4)) = 3

\* C6 as stated: the coordinate computed as north neighbour (the entry
\* commented N) of a cell in row 0 is (N - 1, c).
C6_AsStated ==
    pc = "ready" /\ calls > 0 =>
        \A c \in 0 .. self.N - 1 :
            Neighbors(0, c, self.N)[1] = <<self.N - 1, c>>

\* C6 amended: the coordinate computed as north neighbour of a cell in row 0
\* is (1 mod N, c); (N - 1, c) is the one computed as its south neighbour.
C6_NorthIsNextRow ==
    pc = "ready" /\ calls > 0 =>
        \A c \in 0 .. self.N - 1 :
            /\ Neighbors(0, c, self.N)[1] = <<1 % self.N, c>>
            /\ Neighbors(0, c, self.N)[2] = <<self.N - 1, c>>

C6_Witness ==
    /\ pc = "ready" /\ calls > 0 /\ self.N = 8
    /\ \E c \in 0 .. 7 : At(pre, <<1, c>>) /\ ~At(pre, <<7, c>>)

\* C7: no Game exists whose stored lattice is not N x N.
C7_ShapeIsChecked ==
    DOMAIN self # {} => Universe.shape = self.N

\* C8: a Game exists only for a size that is a positive power of two; any
\* other size ends in an error with no attribute assigned.
C8_SizeIsValidated ==
    /\ DOMAIN self # {} => IsPositivePowerOfTwo(args.size) /\ self.N = args.size
    /\ pc # "new" /\ ~IsPositivePowerOfTwo(args.size) =>
          /\ pc = "raised" /\ err = "ValueError"
          /\ DOMAIN self = {} /\ DOMAIN heap = {}

C8_Witness ==
    pc = "raised" /\ args.entry = "Game" /\ args.size = 6 /\ DOMAIN self = {}

\* B<digits>/S<digits> with every digit in 0..8
IsRuleDigit(c) == c \in {"0", "1", "2", "3", "4", "5", "6", "7", "8"}

WellFormedRulestring(s) ==
    \E k \in 2 .. Len(s) - 1 :
        /\ s[1] = "B" /\ s[k] = "/" /\ s[k + 1] = "S"
        /\ \A m \in 2 .. k - 1 : IsRuleDigit(s[m])
        /\ \A m \in k + 2 .. Len(s) : IsRuleDigit(s[m])

\* C9: a rule string is accepted only when it is B<digits>/S<digits> with
\* digits in 0..8, and then gives exactly those digits.
C9_OnlyWellFormedAccepted ==
    DOMAIN self # {} /\ args.entry = "main" =>
        WellFormedRulestring(args.rulestring)

Visited(c, f) == c[1] < f.j \/ (c[1] = f.j /\ c[2] < f.i)

\* the copy while the loops are at `f`: visited cells hold their new value,
\* the others the old one
PartlyStepped(old, f, birth, survive) ==
    [old EXCEPT !.data =
        [x \in DOMAIN old.data |->
            LET row == x \div old.shape
                col == x % old.shape
            IN IF row < f.N /\ col < f.N /\ Visited(<<row, col>>, f)
               THEN RuleValue(old, row, col, f.N, birth, survive)
               ELSE old.data[x]]]

\* C10: at every point inside update, self.universe and the array the
\* neighbour reads come from equal the lattice before the call, and the
\* writes are in a separate copy; between calls self.universe is the
\* complete step of the lattice before the call, a function of that
\* lattice alone.
C10_DoubleBuffered ==
    /\ pc = "updating" =>
          /\ Universe = pre
          /\ heap[frame.previous_universe] = pre
          /\ frame.universe # self.universe
          /\ heap[frame.universe] =
                PartlyStepped(pre, frame, RuleSet(self.birth_rule),
                              RuleSet(self.survive_rule))
    /\ pc = "ready" /\ calls > 0 =>
          Universe = StepOf(pre, self.N, RuleSet(self.birth_rule),
                            RuleSet(self.survive_rule))

C10_Witness ==
    /\ pc = "updating"
    /\ self.N = 4
    /\ frame.j >= 2
    /\ heap[frame.universe] # pre
    /\ Universe = pre
    /\ \E c \in Cells(4) : ~Visited(c, frame) /\ At(pre, c)
                            /\ \E d \in Offsets :
                                  LET nb == Shifted(c[1], c[2], d, 4)
                                  IN Visited(nb, frame)
                                     /\ At(pre, nb) # At(heap[frame.universe], nb)

====
